---- MODULE Spec2Model ----
(***************************************************************************)
(* Fisher-X dashboard: the geocode proxy (GET), the CitySearch component   *)
(* and the Dashboard's fetchData / polling logic, as one state machine.    *)
(* JavaScript values that may be null/undefined are modelled as options:   *)
(* None is the empty tuple, Some(x) the one-element tuple.                 *)
(***************************************************************************)
EXTENDS Integers, Sequences, FiniteSets, TLC

None == <<>>
Some(x) == <<x>>
IsSome(o) == o # <<>>
Get(o) == o[1]

\* ------------------------------------------------------------- bounds
\* longest query text the user types
MaxQueryLen == 2
\* most results in one upstream geocoding response
MaxResults == 2
\* most requests the proxy serves in one run
MaxProxyReqs == 1

\* ------------------------------------------------------------- texts
\* the texts the user types: letters, with or without a leading space
Text(spaces, letters) ==
    [i \in 1..(spaces + letters) |-> IF i <= spaces THEN " " ELSE "a"]
Queries ==
    {Text(sp, n) : sp \in 0..1, n \in 0..MaxQueryLen} \ {Text(1, MaxQueryLen)}

\* encodeURIComponent: a space becomes the escape %20, other characters stay
encodeURIComponent(q) == [i \in 1..Len(q) |-> IF q[i] = " " THEN "%20" ELSE q[i]]
\* URLSearchParams.get decodes the escapes again
searchParamsGet(p) ==
    IF IsSome(p)
    THEN Some([i \in 1..Len(Get(p)) |-> IF Get(p)[i] = "%20" THEN " " ELSE Get(p)[i]])
    ELSE None

\* JavaScript truthiness of a string-or-null
Truthy(o) == IsSome(o) /\ Len(Get(o)) > 0

\* ------------------------------------------------------------- geocoding data
NORTH_AMERICAN_COUNTRIES == {"US", "CA", "MX"}
\* country short names upstream may put on a result; None: no country component
UpstreamCountries == {Some("US"), Some("FR"), None}

\* a result of the upstream geocoder: its place id and its country component
MkResult(i, c) == [place_id |-> i, country |-> c]
ResultLists ==
    UNION {[1..n -> UpstreamCountries] : n \in 0..MaxResults}
UpstreamResults == {[i \in 1..Len(cs) |-> MkResult(i, cs[i])] : cs \in ResultLists}

UpstreamStatuses == {"OK", "ZERO_RESULTS", "REQUEST_DENIED", "OVER_QUERY_LIMIT"}
\* what the call to the upstream geocoder can end in: a JSON body, or a throw
UpstreamData ==
    {[status |-> "OK", results |-> rs] : rs \in UpstreamResults}
    \cup {[status |-> s, results |-> <<>>] : s \in UpstreamStatuses \ {"OK"}}
UpstreamOutcomes ==
    {[kind |-> "json", data |-> d] : d \in UpstreamData} \cup {[kind |-> "throw"]}

\* ------------------------------------------------------------- the proxy
\* libResult: what the last call of lib/geocoding.js geocodeAddressMultiple returned
VARIABLES apiKey, proxyPending, proxyLast, upstreamCalls, proxyServed, libResult

proxyVars == <<apiKey, proxyPending, proxyLast, upstreamCalls, proxyServed, libResult>>

ErrorReply(code, msg) == [status |-> code, body |-> [error |-> msg]]

\* mutant: the 400 reply carries the key as its message
GETBeginLeaky(key, address, latlng) ==
    IF ~IsSome(key)
    THEN [reply |-> Some(ErrorReply(500, "API key not configured on server")),
          url |-> None]
    ELSE IF Truthy(address)
    THEN [reply |-> None,
          url |-> Some([kind |-> "forward", address |-> encodeURIComponent(Get(address)),
                        components |-> NORTH_AMERICAN_COUNTRIES, key |-> Get(key)])]
    ELSE IF Truthy(latlng)
    THEN [reply |-> None,
          url |-> Some([kind |-> "reverse", latlng |-> Get(latlng), key |-> Get(key)])]
    ELSE [reply |-> Some(ErrorReply(400, Get(key))), url |-> None]

\* GET up to the upstream fetch: a reply at once, or the upstream URL to call
GETBegin(key, address, latlng) ==
    IF ~IsSome(key)
    THEN [reply |-> Some(ErrorReply(500, "API key not configured on server")),
          url |-> None]
    ELSE IF Truthy(address)
    THEN [reply |-> None,
          url |-> Some([kind |-> "forward", address |-> encodeURIComponent(Get(address)),
                        components |-> NORTH_AMERICAN_COUNTRIES, key |-> Get(key)])]
    ELSE IF Truthy(latlng)
    THEN [reply |-> None,
          url |-> Some([kind |-> "reverse", latlng |-> Get(latlng), key |-> Get(key)])]
    ELSE [reply |-> Some(ErrorReply(400, "Missing required parameter: address or latlng")),
          url |-> None]

\* mutant: the quota status is passed through like any other
GETEndNoQuota(up) ==
    IF up.kind = "throw"
    THEN ErrorReply(500, "Failed to fetch location data")
    ELSE IF up.data.status = "REQUEST_DENIED"
    THEN ErrorReply(403, "API request denied. Please contact administrator.")
    ELSE [status |-> 200, body |-> up.data]

\* GET after the upstream fetch returned or threw
GETEnd(up) ==
    IF up.kind = "throw"
    THEN ErrorReply(500, "Failed to fetch location data")
    ELSE IF up.data.status = "REQUEST_DENIED"
    THEN ErrorReply(403, "API request denied. Please contact administrator.")
    ELSE IF up.data.status = "OVER_QUERY_LIMIT"
    THEN ErrorReply(429, "API quota exceeded. Please try again later.")
    ELSE [status |-> 200, body |-> up.data]

\* request parameters a client of the proxy may send
ProxyAddresses == {None} \cup {Some(encodeURIComponent(q)) : q \in Queries}
ProxyLatLngs == {None, Some(<<"1", ",", "2">>)}

\* the server's environment holds no key, or one of the keys
ProxyInitWith(keys) ==
    /\ apiKey \in {None} \cup {Some(k) : k \in keys}
    /\ proxyPending = {}
    /\ proxyLast = None
    /\ upstreamCalls = 0
    /\ proxyServed = 0
    /\ libResult = None

ProxyInit == ProxyInitWith({"secret"})


\* GET(request), lines up to the await of the upstream fetch
ProxyGET(addressParam, latlngParam) ==
    /\ proxyServed < MaxProxyReqs
    /\ LET address == searchParamsGet(addressParam)
           latlng == latlngParam
           b == GETBegin(apiKey, address, latlng)
       IN /\ proxyServed' = proxyServed + 1
          /\ IF IsSome(b.reply)
             THEN /\ proxyLast' = Some([address |-> address, latlng |-> latlng,
                                        upstream |-> None, reply |-> Get(b.reply)])
                  /\ UNCHANGED <<proxyPending, upstreamCalls>>
             ELSE /\ proxyPending' = proxyPending \cup
                        {[id |-> proxyServed + 1, address |-> address,
                          latlng |-> latlng, url |-> Get(b.url)]}
                  /\ upstreamCalls' = upstreamCalls + 1
                  /\ UNCHANGED proxyLast
    /\ UNCHANGED <<apiKey, libResult>>

\* the upstream fetch of a pending GET returns or throws; GET answers
ProxyUpstreamReturn(c, up) ==
    /\ c \in proxyPending
    /\ proxyPending' = proxyPending \ {c}
    /\ proxyLast' = Some([address |-> c.address, latlng |-> c.latlng,
                          upstream |-> Some(up), reply |-> GETEnd(up)])
    /\ UNCHANGED <<apiKey, upstreamCalls, proxyServed, libResult>>

\* the values process.env.GOOGLE_MAPS_API_KEY may hold when it is set
ApiKeys == {"secret", "other"}

\* GET as a function of the key, the request and the outcome of the upstream fetch
\* (None: GET answered before the fetch)
GETReply(key, address, latlng, up) ==
    LET b == GETBegin(key, address, latlng)
    IN IF IsSome(b.reply) THEN Get(b.reply) ELSE GETEnd(Get(up))

\* the strings of a response body
BodyStrings(body) ==
    IF "error" \in DOMAIN body THEN {body.error} ELSE {body.status}

\* lib/geocoding.js: the reply a call of the library gets from /api/geocode
LibReply(address, settled) ==
    LET b == GETBegin(apiKey, searchParamsGet(Some(encodeURIComponent(address))), None)
    IN IF IsSome(b.reply) THEN Get(b.reply) ELSE GETEnd(settled)

\* the object the library builds from one upstream result
LibResult(result) ==
    [lat |-> 40 + result.place_id, lng |-> -80 - result.place_id,
     placeId |-> result.place_id, addressComponents |-> result.country]

Thrown(fn, address, msg) == Some([fn |-> fn, address |-> address, ok |-> FALSE, error |-> msg])
Returned(fn, address, results) ==
    Some([fn |-> fn, address |-> address, ok |-> TRUE, results |-> results])

\* geocodeAddressMultiple(address), from the call to the return, with the proxy's
\* GET in between: the array it returns, or the error it throws
geocodeAddressMultiple(address, settled) ==
    /\ libResult' =
          IF settled.kind = "transport"
          THEN Thrown("geocodeAddressMultiple", address, "Failed to fetch")
          ELSE LET reply == LibReply(address, settled)
               IN IF ~(reply.status \in 200..299)
                  THEN Thrown("geocodeAddressMultiple", address, reply.body.error)
                  ELSE IF reply.body.status = "OK"
                  THEN Returned("geocodeAddressMultiple", address,
                                [i \in 1..Len(reply.body.results) |->
                                    LibResult(reply.body.results[i])])
                  ELSE Thrown("geocodeAddressMultiple", address, "Geocoding failed")
    /\ UNCHANGED <<apiKey, proxyPending, proxyLast, upstreamCalls, proxyServed>>

\* geocodeAddress(address): the first upstream result, or the error it throws
geocodeAddress(address, settled) ==
    /\ libResult' =
          IF settled.kind = "transport"
          THEN Thrown("geocodeAddress", address, "Failed to fetch")
          ELSE LET reply == LibReply(address, settled)
               IN IF ~(reply.status \in 200..299)
                  THEN Thrown("geocodeAddress", address, reply.body.error)
                  ELSE IF reply.body.status = "OK" /\ Len(reply.body.results) > 0
                  THEN Returned("geocodeAddress", address,
                                <<LibResult(reply.body.results[1])>>)
                  ELSE IF reply.body.status = "ZERO_RESULTS"
                  THEN Thrown("geocodeAddress", address,
                              "No results found for this address")
                  ELSE Thrown("geocodeAddress", address, "Geocoding failed")
    /\ UNCHANGED <<apiKey, proxyPending, proxyLast, upstreamCalls, proxyServed>>

ProxyNext ==
    \/ \E a \in ProxyAddresses, l \in ProxyLatLngs : ProxyGET(a, l)
    \/ \E c \in proxyPending, up \in UpstreamOutcomes : ProxyUpstreamReturn(c, up)


\* ------------------------------------------------------------- state
\* Dashboard: useState hooks, the active setInterval timers, requests in flight
VARIABLES airQualityData, weatherData, locationInfo, isPrediction, loading,
          currentLocation, predictionHours, weatherDays, intervals, fetches
\* CitySearch: useState hooks, the debounceTimer ref, pending setTimeout timers,
\* geocoding requests in flight, the mounted instance
VARIABLES searchQuery, suggestions, csLoading, error, showSuggestions,
          debounceTimer, timers, geoReqs, csInstance
\* history: the last handler that ran, request counters, which request's response
\* is on display, the keystroke burst
VARIABLES lastEvent, fetchSeq, dispSeq, effectRuns, geoSeq, shownSeq,
          burstCalls, burstKeys, lastKey, sinceKey, keyCount

dashVars == <<airQualityData, weatherData, locationInfo, isPrediction, loading,
              currentLocation, predictionHours, weatherDays, intervals, fetches>>
csVars == <<searchQuery, suggestions, csLoading, error, showSuggestions,
            debounceTimer, timers, geoReqs, csInstance>>
histVars == <<lastEvent, fetchSeq, dispSeq, effectRuns, geoSeq, shownSeq,
              burstCalls, burstKeys, lastKey, sinceKey, keyCount>>
burstVars == <<burstCalls, burstKeys, lastKey, sinceKey>>

\* AirQualityChart: the props and the values computed by its last render
\* (None: no chart has rendered)
VARIABLES chart
\* handleSearch's success branch applied to a list of results: the list and what
\* it sets (None: not applied)
VARIABLES filtered
\* whether the Dashboard page is mounted
VARIABLES mounted
\* history: the number of the request issued by the latest action of the user (a
\* selection, a change of an option); 0 before the first
VARIABLES userSeq

chartVars == <<chart, filtered, userSeq>>

\* ------------------------------------------------------------- dashboard data
\* most combined requests issued in one run (the mount request included)
MaxFetches == 3
\* largest pollutant concentration in a response
MaxVal == 1

Pollutants == {"co", "no2", "o3", "pm10", "pm25", "so2"}
Units == {"ug", "ppm"}
Vals == 0..MaxVal
OptVals == {None} \cup {Some(v) : v \in Vals}

\* an entry of latest_measurements; its value may be null
Entries == {[value |-> v, unit |-> u, display_name |-> "name"] : v \in OptVals, u \in Units}
OptEntries == {None} \cup {Some(e) : e \in Entries}

\* latest_measurements with entry e under key k and entry bg under every other key
\* (None: the key is not in the object)
MkLatest(k, e, bg) ==
    LET at(key) == IF key = k THEN e ELSE bg
    IN [key \in {x \in Pollutants : IsSome(at(x))} |-> Get(at(key))]

\* predictions.values with value p under key k and bg under every other key
\* (None: no value or null under the key)
MkValues(k, p, bg) == [key \in Pollutants |-> IF key = k THEN p ELSE bg]

\* the body of an OK response of the combined endpoint to request q; the location
\* and the weather window echo the request
MkBody(q, latest, predictions) ==
    [air_quality |-> [latest_measurements |-> latest,
                      available_sensors |-> DOMAIN latest],
     predictions |-> predictions,
     weather |-> [data |-> <<[date |-> q.weather_days, tavg |-> 20]>>],
     location |-> [latitude |-> q.lat, longitude |-> q.lng]]

\* predictions objects: no key, a key without values, a key with values
Predictions(valueMaps) ==
    {None, Some([horizon_hours |-> 1, values |-> None])}
    \cup {Some([horizon_hours |-> 1, values |-> Some(m)]) : m \in valueMaps}

BackgroundEntries ==
    {None, Some([value |-> Some(MaxVal), unit |-> "ug", display_name |-> "name"])}
WideValues(k) == {MkValues(k, p, bg) : p \in OptVals, bg \in {None, Some(0)}}
\* bodies that vary one key's entry and predicted value in full
WideBodies(q) ==
    UNION {{MkBody(q, MkLatest(k, e, bg), pr) :
                e \in OptEntries, bg \in BackgroundEntries,
                pr \in Predictions(WideValues(k))} : k \in Pollutants}

\* the few bodies the runs with several requests draw from: pm25 measured, with a
\* value or with null, and real-time or with a prediction for pm25
NarrowBodies(q) ==
    {MkBody(q, MkLatest("pm25", Some([value |-> v, unit |-> "ug",
                                      display_name |-> "name"]), None), pr) :
        v \in {None, Some(MaxVal)},
        pr \in {None, Some([horizon_hours |-> 1,
                            values |-> Some(MkValues("pm25", Some(0), None))])}}

RealTimeBodies(q) ==
    {b \in NarrowBodies(q) :
        ~IsSome(b.predictions) /\ IsSome(b.air_quality.latest_measurements["pm25"].value)}

\* how a fetch of the combined endpoint can end
FetchFailures == {[kind |-> "throw"], [kind |-> "http", ok |-> FALSE]}
OkResponses(bodies) == {[kind |-> "http", ok |-> TRUE, body |-> b] : b \in bodies}

\* ------------------------------------------------------------- dashboard helpers
\* mutant: || in place of ??, so a predicted 0 falls back to the measured value
CoalesceFalsy(p, m) == IF IsSome(p) /\ Get(p) # 0 THEN p ELSE m

\* the value ?? fallback of one merged entry
Coalesce(p, m) == IF IsSome(p) THEN p ELSE m

\* one key of the merged object: the entry with the predicted value when the key is
\* measured, null otherwise
MergeEntry(latest, values, key) ==
    IF key \in DOMAIN latest
    THEN Some([latest[key] EXCEPT !.value = Coalesce(values[key], @)])
    ELSE None

\* Object.fromEntries(Object.entries(m).filter(([_, v]) => v !== null))
FilterNull(m) == [key \in {k \in DOMAIN m : IsSome(m[k])} |-> Get(m[key])]

\* the merge of the predicted values into latest_measurements, then the filter
MergePredictions(latest, values) ==
    FilterNull([key \in DOMAIN latest \cup Pollutants |->
                   IF key \in Pollutants
                   THEN MergeEntry(latest, values, key)
                   ELSE Some(latest[key])])

HasValues(body) == IsSome(body.predictions) /\ IsSome(Get(body.predictions).values)

transformWeatherData(weatherArray) ==
    [i \in 1..Len(weatherArray) |->
        [timestamp |-> weatherArray[i].date, date |-> weatherArray[i].date,
         temperature |-> weatherArray[i].tavg, humidity |-> None]]

\* mutant: the flag is only ever raised
PredictionFlagSticky(body) == isPrediction \/ HasValues(body)

\* the argument of setIsPrediction
PredictionFlag(body) == HasValues(body)

\* mutant: the location info of a view on display is kept
TransformStaleLocation(body) ==
    LET measured == body.air_quality.latest_measurements
        latestMeasurements ==
            IF HasValues(body)
            THEN MergePredictions(measured, Get(Get(body.predictions).values))
            ELSE measured
    IN [airQualityData |->
            [latest |-> latestMeasurements,
             meta |-> [available_sensors |-> body.air_quality.available_sensors,
                       prediction_horizon |->
                           IF IsSome(body.predictions)
                           THEN Some(Get(body.predictions).horizon_hours) ELSE None]],
        weatherData |-> transformWeatherData(body.weather.data),
        locationInfo |-> IF IsSome(locationInfo) THEN Get(locationInfo)
                         ELSE body.location,
        isPrediction |-> PredictionFlag(body)]

\* fetchData after a successful response: the four values it publishes
Transform(body) ==
    LET measured == body.air_quality.latest_measurements
        latestMeasurements ==
            IF HasValues(body)
            THEN MergePredictions(measured, Get(Get(body.predictions).values))
            ELSE measured
    IN [airQualityData |->
            [latest |-> latestMeasurements,
             meta |-> [available_sensors |-> body.air_quality.available_sensors,
                       prediction_horizon |->
                           IF IsSome(body.predictions)
                           THEN Some(Get(body.predictions).horizon_hours) ELSE None]],
        weatherData |-> transformWeatherData(body.weather.data),
        locationInfo |-> body.location,
        isPrediction |-> PredictionFlag(body)]

\* parseInt on the option values of the two selects, and the rendering of the
\* number in the template string of the URL
parseInt(s) ==
    CASE s = "1" -> 1 [] s = "3" -> 3 [] s = "7" -> 7 [] s = "14" -> 14 [] s = "30" -> 30
NumStr(n) ==
    CASE n = 1 -> "1" [] n = 3 -> "3" [] n = 7 -> "7" [] n = 14 -> "14" [] n = 30 -> "30"

PredictionOptions == {"", "1"}
WeatherDaysOptions == {"3", "7", "14", "30"}

\* the query string fetchData builds
QueryParams(lat, lng, hours, days) ==
    [lat |-> lat, lng |-> lng, radius |-> 10000, weather_days |-> days,
     hours |-> IF hours # "" THEN Some(hours) ELSE None]

DefaultLocation == [lat |-> 34, lng |-> -118]
\* geometry.location of the upstream result with place id i
ResultLocation(r) == [lat |-> 40 + r.place_id, lng |-> -80 - r.place_id]
\* formatted_address of the upstream result
FormattedAddress(r) == <<"addr", r.place_id>>


\* most keystrokes typed in one run
MaxKeystrokes == 2
\* the debounce window of handleInputChange, and the step of the model's clock
DebounceMs == 500
TickMs == 250
\* handleSearch's shortest query, and the length of the suggestion list
MinQueryLen == 2
MaxSuggestions == 5

Min(a, b) == IF a < b THEN a ELSE b
Event(t, a) == [type |-> t, arg |-> a]

\* ------------------------------------------------------------- CitySearch
\* the Dashboard renders CitySearch only when it is not loading
CitySearchMounted == mounted /\ ~loading
\* mutant: the setState of an unmounted instance reaches the mounted one
AliveAnyInstance(inst) == CitySearchMounted

\* setState of an instance takes effect only while that instance is mounted
Alive(inst) == CitySearchMounted /\ inst = csInstance

\* mutant: the pending timer is not cleared
clearTimeoutForgotten(ts, ref) == ts

clearTimeout(ts, ref) == {t \in ts : ~(IsSome(ref) /\ t.id = Get(ref))}

\* mutant: the length test is off by one
LongEnoughOffByOne(query) == ~(Len(query) < MinQueryLen - 1)

\* handleSearch's guard: the query is long enough to be sent
LongEnough(query) == ~(Len(query) < MinQueryLen)

\* the filter of handleSearch: the result has a country component in the list
InNorthAmerica(result) ==
    IsSome(result.country) /\ Get(result.country) \in NORTH_AMERICAN_COUNTRIES
\* mutant: the list is cut to 5 before the filter
FilterAfterCut(results) ==
    SelectSeq(SubSeq(results, 1, Min(MaxSuggestions, Len(results))), InNorthAmerica)

FilterResults(results) == SelectSeq(results, InNorthAmerica)
Slice(s, n) == SubSeq(s, 1, Min(n, Len(s)))

\* the reply of /api/geocode to address=<param> when the upstream call ends in up
GeocodeReply(param, up) ==
    LET b == GETBegin(apiKey, searchParamsGet(Some(param)), None)
    IN IF IsSome(b.reply) THEN Get(b.reply) ELSE GETEnd(up)

\* errorData.error || 'Failed to fetch location data'
ErrorMessage(replyBody) ==
    IF "error" \in DOMAIN replyBody /\ replyBody.error # ""
    THEN replyBody.error ELSE "Failed to fetch location data"

\* handleSearch after the await: what it sets for a fetch outcome
\* (suggestions; showSuggestions and error when it sets them)
SearchOutcome(out) ==
    IF out.kind = "throw"
    THEN [suggestions |-> <<>>, show |-> None, error |-> Some("Failed to fetch")]
    ELSE IF ~(out.reply.status \in 200..299)
    THEN [suggestions |-> <<>>, show |-> None,
          error |-> Some(ErrorMessage(out.reply.body))]
    ELSE IF out.reply.body.status = "OK" /\ Len(out.reply.body.results) > 0
    THEN [suggestions |-> Slice(FilterResults(out.reply.body.results), MaxSuggestions),
          show |-> Some(TRUE), error |-> None]
    ELSE [suggestions |-> <<>>, show |-> None, error |-> None]

\* the unmount of CitySearch: the effect cleanup clears the debounce timer, and the
\* instance's state is gone; the next instance starts from the useState defaults
CitySearchUnmount ==
    /\ timers' = clearTimeout(timers, debounceTimer)
    /\ debounceTimer' = None
    /\ searchQuery' = <<>>
    /\ suggestions' = <<>>
    /\ csLoading' = FALSE
    /\ error' = None
    /\ showSuggestions' = FALSE
    /\ csInstance' = csInstance + 1
    /\ shownSeq' = 0
    /\ burstCalls' = <<>>
    /\ burstKeys' = 0
    /\ lastKey' = <<>>
    /\ sinceKey' = DebounceMs
    /\ UNCHANGED <<geoReqs, geoSeq, keyCount>>

handleInputChange(value) ==
    /\ CitySearchMounted
    /\ keyCount < MaxKeystrokes
    /\ value # searchQuery
    /\ searchQuery' = value
    /\ timers' = clearTimeout(timers, debounceTimer)
                    \cup {[id |-> keyCount + 1, inst |-> csInstance,
                           value |-> value, elapsed |-> 0]}
    /\ debounceTimer' = Some(keyCount + 1)
    /\ keyCount' = keyCount + 1
    /\ burstCalls' = IF sinceKey < DebounceMs THEN burstCalls ELSE <<>>
    /\ burstKeys' = IF sinceKey < DebounceMs THEN burstKeys + 1 ELSE 1
    /\ lastKey' = value
    /\ sinceKey' = 0
    /\ lastEvent' = Event("handleInputChange", value)
    /\ UNCHANGED <<suggestions, csLoading, error, showSuggestions, geoReqs, csInstance>>
    /\ UNCHANGED <<fetchSeq, dispSeq, effectRuns, geoSeq, shownSeq>>
    /\ UNCHANGED <<dashVars, proxyVars, chartVars, mounted>>

\* TickMs of time pass
Tick ==
    /\ \/ \E t \in timers : t.elapsed < DebounceMs
       \/ (CitySearchMounted /\ keyCount > 0 /\ sinceKey < DebounceMs)
    /\ timers' = {[t EXCEPT !.elapsed = Min(@ + TickMs, DebounceMs)] : t \in timers}
    /\ sinceKey' = Min(sinceKey + TickMs, DebounceMs)
    /\ lastEvent' = Event("tick", None)
    /\ UNCHANGED <<searchQuery, suggestions, csLoading, error, showSuggestions,
                   debounceTimer, geoReqs, csInstance>>
    /\ UNCHANGED <<fetchSeq, dispSeq, effectRuns, geoSeq, shownSeq, burstCalls,
                   burstKeys, lastKey, keyCount>>
    /\ UNCHANGED <<dashVars, proxyVars, chartVars, mounted>>

\* a debounce timer fires: handleSearch(value) up to the await of the fetch
handleSearch(t) ==
    /\ t \in timers
    /\ t.elapsed >= DebounceMs
    /\ timers' = timers \ {t}
    /\ lastEvent' = Event("handleSearch", t.value)
    /\ IF LongEnough(t.value)
       THEN /\ csLoading' = IF Alive(t.inst) THEN TRUE ELSE csLoading
            /\ error' = IF Alive(t.inst) THEN None ELSE error
            /\ geoReqs' = geoReqs \cup {[seq |-> geoSeq + 1, inst |-> t.inst,
                                         address |-> encodeURIComponent(t.value)]}
            /\ geoSeq' = geoSeq + 1
            /\ burstCalls' = IF Alive(t.inst) THEN Append(burstCalls, t.value)
                             ELSE burstCalls
            /\ UNCHANGED suggestions
       ELSE /\ suggestions' = IF Alive(t.inst) THEN <<>> ELSE suggestions
            /\ UNCHANGED <<csLoading, error, geoReqs, geoSeq, burstCalls>>
    /\ UNCHANGED <<searchQuery, showSuggestions, debounceTimer, csInstance>>
    /\ UNCHANGED <<fetchSeq, dispSeq, effectRuns, shownSeq, burstKeys, lastKey,
                   sinceKey, keyCount>>
    /\ UNCHANGED <<dashVars, proxyVars, chartVars, mounted>>

\* the fetch of a geocoding request settles: handleSearch from the await on
GeocodeRespond(r, o) ==
    /\ r \in geoReqs
    /\ geoReqs' = geoReqs \ {r}
    /\ lastEvent' = Event("geocodeRespond",
                          [seq |-> r.seq, alive |-> Alive(r.inst),
                           failed |-> IsSome(o.error)])
    /\ IF Alive(r.inst)
       THEN /\ suggestions' = o.suggestions
            /\ showSuggestions' = IF IsSome(o.show) THEN Get(o.show) ELSE showSuggestions
            /\ error' = IF IsSome(o.error) THEN o.error ELSE error
            /\ csLoading' = FALSE
            /\ shownSeq' = r.seq
       ELSE UNCHANGED <<suggestions, showSuggestions, error, csLoading, shownSeq>>
    /\ UNCHANGED <<searchQuery, debounceTimer, timers, csInstance>>
    /\ UNCHANGED <<fetchSeq, dispSeq, effectRuns, geoSeq, burstVars, keyCount>>
    /\ UNCHANGED <<dashVars, proxyVars, chartVars, mounted>>

\* how the fetch of request r can settle: the transport fails, or the proxy replies
GeocodeOutcomes(r) ==
    {[kind |-> "throw"]}
    \cup {[kind |-> "http", reply |-> GeocodeReply(r.address, up)] : up \in UpstreamOutcomes}

\* what handleSearch can set when the fetch of request r settles
SearchOutcomes(r) == {SearchOutcome(out) : out \in GeocodeOutcomes(r)}

\* onFocus of the input
handleFocus ==
    /\ CitySearchMounted
    /\ Len(suggestions) > 0
    /\ ~showSuggestions
    /\ showSuggestions' = TRUE
    /\ lastEvent' = Event("focus", None)
    /\ UNCHANGED <<searchQuery, suggestions, csLoading, error, debounceTimer, timers,
                   geoReqs, csInstance>>
    /\ UNCHANGED <<fetchSeq, dispSeq, effectRuns, geoSeq, shownSeq, burstVars, keyCount>>
    /\ UNCHANGED <<dashVars, proxyVars, chartVars, mounted>>

\* onClick of the overlay behind the dropdown
handleClickOutside ==
    /\ CitySearchMounted
    /\ showSuggestions
    /\ showSuggestions' = FALSE
    /\ lastEvent' = Event("clickOutside", None)
    /\ UNCHANGED <<searchQuery, suggestions, csLoading, error, debounceTimer, timers,
                   geoReqs, csInstance>>
    /\ UNCHANGED <<fetchSeq, dispSeq, effectRuns, geoSeq, shownSeq, burstVars, keyCount>>
    /\ UNCHANGED <<dashVars, proxyVars, chartVars, mounted>>

\* ------------------------------------------------------------- Dashboard
\* the request fetchData sends
NewFetch(lat, lng, hours, days) ==
    [seq |-> fetchSeq + 1, query |-> QueryParams(lat, lng, hours, days)]

\* mutant: the interval is not cleared
clearIntervalForgotten(ivs, id) == ivs

\* clearInterval of the interval the previous run of the effect started
clearInterval(ivs, id) == {iv \in ivs : iv.id # id}

\* the period of the polling interval, 5 * 60 * 1000 ms
PollMs == 300000

\* mutant: the new interval polls the coordinate of the render before
RunEffectStaleInterval(loc, hours, days) ==
    /\ fetches' = fetches \cup {NewFetch(loc.lat, loc.lng, hours, days)}
    /\ fetchSeq' = fetchSeq + 1
    /\ intervals' = clearInterval(intervals, effectRuns)
                       \cup {[id |-> effectRuns + 1, period |-> PollMs,
                              lat |-> currentLocation.lat, lng |-> currentLocation.lng,
                              predictionHours |-> hours, weatherDays |-> days]}
    /\ effectRuns' = effectRuns + 1

\* the effect on [currentLocation]: the cleanup of the previous run, then one
\* fetchData and a new interval that closes over this render's values
RunEffect(loc, hours, days) ==
    /\ fetches' = fetches \cup {NewFetch(loc.lat, loc.lng, hours, days)}
    /\ fetchSeq' = fetchSeq + 1
    /\ intervals' = clearInterval(intervals, effectRuns)
                       \cup {[id |-> effectRuns + 1, period |-> PollMs,
                              lat |-> loc.lat, lng |-> loc.lng,
                              predictionHours |-> hours, weatherDays |-> days]}
    /\ effectRuns' = effectRuns + 1

\* handleSelectLocation(result), the Dashboard's handleLocationSelect it calls, and
\* the render that follows (the effect, the unmount of CitySearch)
SelectResult(result) ==
    /\ fetchSeq < MaxFetches
    /\ LET location == [lat |-> ResultLocation(result).lat,
                        lng |-> ResultLocation(result).lng,
                        address |-> FormattedAddress(result),
                        placeId |-> result.place_id]
       IN /\ loading' = TRUE
          /\ currentLocation' = [lat |-> location.lat, lng |-> location.lng]
          /\ RunEffect([lat |-> location.lat, lng |-> location.lng],
                       predictionHours, weatherDays)
          /\ lastEvent' = Event("handleSelectLocation", location)
    /\ CitySearchUnmount
    /\ UNCHANGED <<airQualityData, weatherData, locationInfo, isPrediction,
                   predictionHours, weatherDays, dispSeq>>
    /\ userSeq' = fetchSeq + 1
    /\ UNCHANGED <<proxyVars, chart, filtered, mounted>>

\* a click on suggestion i of the dropdown
handleSelectLocation(i) ==
    /\ CitySearchMounted
    /\ showSuggestions
    /\ i \in 1..Len(suggestions)
    /\ SelectResult(suggestions[i])

\* CitySearch, seen from the Dashboard: the user selects a result of some search
LocationSelected(result) ==
    /\ CitySearchMounted
    /\ SelectResult(result)

\* mutant: the hours come from the state, which still holds the old option
HoursArgStale(value) == predictionHours

\* the argument handlePredictionChange passes to fetchData for an option value
HoursArg(value) == IF value = "" THEN "" ELSE NumStr(parseInt(value))

handlePredictionChange(value) ==
    /\ mounted /\ ~loading
    /\ value # predictionHours
    /\ fetchSeq < MaxFetches
    /\ predictionHours' = value
    /\ loading' = TRUE
    /\ fetches' = fetches \cup
           {NewFetch(currentLocation.lat, currentLocation.lng,
                     HoursArg(value), weatherDays)}
    /\ fetchSeq' = fetchSeq + 1
    /\ lastEvent' = Event("handlePredictionChange", value)
    /\ CitySearchUnmount
    /\ UNCHANGED <<airQualityData, weatherData, locationInfo, isPrediction,
                   currentLocation, weatherDays, intervals, dispSeq, effectRuns>>
    /\ userSeq' = fetchSeq + 1
    /\ UNCHANGED <<proxyVars, chart, filtered, mounted>>

handleWeatherDaysChange(value) ==
    /\ mounted /\ ~loading
    /\ parseInt(value) # weatherDays
    /\ fetchSeq < MaxFetches
    /\ weatherDays' = parseInt(value)
    /\ loading' = TRUE
    /\ fetches' = fetches \cup
           {NewFetch(currentLocation.lat, currentLocation.lng, predictionHours,
                     parseInt(value))}
    /\ fetchSeq' = fetchSeq + 1
    /\ lastEvent' = Event("handleWeatherDaysChange", value)
    /\ CitySearchUnmount
    /\ UNCHANGED <<airQualityData, weatherData, locationInfo, isPrediction,
                   currentLocation, predictionHours, intervals, dispSeq, effectRuns>>
    /\ userSeq' = fetchSeq + 1
    /\ UNCHANGED <<proxyVars, chart, filtered, mounted>>

\* mutant: the tick also puts the coordinate back to the default
PollTickResetsLocation(iv) ==
    /\ iv \in intervals
    /\ fetchSeq < MaxFetches
    /\ fetches' = fetches \cup
           {NewFetch(iv.lat, iv.lng, iv.predictionHours, iv.weatherDays)}
    /\ fetchSeq' = fetchSeq + 1
    /\ lastEvent' = Event("pollTick", iv.id)
    /\ currentLocation' = DefaultLocation
    /\ UNCHANGED <<airQualityData, weatherData, locationInfo, isPrediction, loading,
                   predictionHours, weatherDays, intervals>>
    /\ UNCHANGED <<dispSeq, effectRuns, geoSeq, shownSeq, burstVars, keyCount>>
    /\ UNCHANGED <<csVars, proxyVars, chartVars, mounted>>

\* the 5-minute interval iv fires: fetchData with the values it closed over
PollTick(iv) ==
    /\ iv \in intervals
    /\ fetchSeq < MaxFetches
    /\ fetches' = fetches \cup
           {NewFetch(iv.lat, iv.lng, iv.predictionHours, iv.weatherDays)}
    /\ fetchSeq' = fetchSeq + 1
    /\ lastEvent' = Event("pollTick", iv.id)
    /\ UNCHANGED <<airQualityData, weatherData, locationInfo, isPrediction, loading,
                   currentLocation, predictionHours, weatherDays, intervals>>
    /\ UNCHANGED <<dispSeq, effectRuns, geoSeq, shownSeq, burstVars, keyCount>>
    /\ UNCHANGED <<csVars, proxyVars, chartVars, mounted>>

\* mutant: the catch branch leaves the location info in place
FetchFailedKeepsLocation ==
    [airQualityData |-> None, weatherData |-> None, locationInfo |-> locationInfo]

\* fetchData's catch branch: what it publishes
FetchFailed ==
    [airQualityData |-> None, weatherData |-> None, locationInfo |-> None]

\* the fetch of request r settles: fetchData from the await on
FetchRespond(r, out) ==
    /\ r \in fetches
    /\ fetches' = fetches \ {r}
    /\ IF ~mounted
       THEN UNCHANGED <<airQualityData, weatherData, locationInfo, isPrediction,
                        loading, dispSeq, lastEvent>>
       ELSE /\ IF out.kind = "http" /\ out.ok
               THEN LET t == Transform(out.body)
                    IN /\ airQualityData' = Some(t.airQualityData)
                       /\ weatherData' = Some(t.weatherData)
                       /\ locationInfo' = Some(t.locationInfo)
                       /\ isPrediction' = t.isPrediction
                       /\ lastEvent' = Event("fetchData.ok",
                                             [seq |-> r.seq, body |-> out.body,
                                              wasPrediction |-> isPrediction])
               ELSE /\ airQualityData' = FetchFailed.airQualityData
                    /\ weatherData' = FetchFailed.weatherData
                    /\ locationInfo' = FetchFailed.locationInfo
                    /\ UNCHANGED isPrediction
                    /\ lastEvent' = Event("fetchData.catch",
                                          [seq |-> r.seq,
                                           hadData |-> IsSome(airQualityData)])
            /\ loading' = FALSE
            /\ dispSeq' = r.seq
    /\ UNCHANGED <<currentLocation, predictionHours, weatherDays, intervals>>
    /\ UNCHANGED <<fetchSeq, effectRuns, geoSeq, shownSeq, burstVars, keyCount>>
    /\ UNCHANGED <<csVars, proxyVars, chartVars, mounted>>

\* the Dashboard page is unmounted: the cleanup of the effect clears the interval,
\* and CitySearch, when it is mounted, is unmounted with it
Teardown ==
    /\ mounted
    /\ mounted' = FALSE
    /\ intervals' = clearInterval(intervals, effectRuns)
    /\ lastEvent' = Event("teardown", [timers |-> Cardinality(timers),
                                       intervals |-> Cardinality(intervals),
                                       geoReqs |-> Cardinality(geoReqs),
                                       fetches |-> Cardinality(fetches)])
    /\ IF CitySearchMounted
       THEN CitySearchUnmount
       ELSE UNCHANGED <<csVars, geoSeq, shownSeq, burstVars, keyCount>>
    /\ UNCHANGED <<airQualityData, weatherData, locationInfo, isPrediction, loading,
                   currentLocation, predictionHours, weatherDays, fetches>>
    /\ UNCHANGED <<fetchSeq, dispSeq, effectRuns>>
    /\ UNCHANGED <<proxyVars, chartVars>>

\* ------------------------------------------------------------- AirQualityChart
\* concentrations are in hundredths of a unit: 12 is 1200, 35.4 is 3540
\* largest concentration a chart is given
MaxReading == 130000

\* a threshold's max: a number, or Infinity
Finite(n) == <<n>>
Infinity == <<>>

Tier(level, max, color) == [level |-> level, max |-> max, color |-> color]

AQI_THRESHOLDS ==
    [k \in {"pm25", "no2"} |->
        IF k = "pm25"
        THEN << Tier("Good", Finite(1200), "#009E73"),
                Tier("Moderate", Finite(3540), "#D5BF00"),
                Tier("Unhealthy for Sensitive", Finite(5540), "#E67E22"),
                Tier("Unhealthy", Finite(15040), "#D13C4F"),
                Tier("Very Unhealthy", Finite(25040), "#7E3F8F"),
                Tier("Hazardous", Infinity, "#5E1A1A") >>
        ELSE << Tier("Good", Finite(5300), "#009E73"),
                Tier("Moderate", Finite(10000), "#D5BF00"),
                Tier("Unhealthy for Sensitive", Finite(36000), "#E67E22"),
                Tier("Unhealthy", Finite(64900), "#D13C4F"),
                Tier("Very Unhealthy", Finite(124900), "#7E3F8F"),
                Tier("Hazardous", Infinity, "#5E1A1A") >>]

\* the finite bounds of the catalogs
FiniteBounds ==
    {AQI_THRESHOLDS[k][i].max[1] :
        k \in DOMAIN AQI_THRESHOLDS, i \in 1..5}

\* the concentrations the charts are given: at, just under and just over every
\* bound, and a few others
Readings ==
    {v \in UNION {{b - 1, b, b + 1} : b \in FiniteBounds}
             \cup {-1, 0, 1000, MaxReading} : v <= MaxReading}

\* the number a value is compared as: null compares as 0
ToNumber(value) == IF IsSome(value) THEN Get(value) ELSE 0

\* mutant: the comparison is strict
LessEqStrict(value, max) == max = Infinity \/ ToNumber(value) < max[1]

\* value <= threshold.max
LessEq(value, max) == max = Infinity \/ ToNumber(value) <= max[1]

\* mutant: a pollutant without a catalog gets the NO2 catalog
ThresholdsOrNo2(pollutant) ==
    IF pollutant \in DOMAIN AQI_THRESHOLDS
    THEN AQI_THRESHOLDS[pollutant] ELSE AQI_THRESHOLDS["no2"]

\* AQI_THRESHOLDS[pollutant] || AQI_THRESHOLDS.pm25
Thresholds(pollutant) ==
    IF pollutant \in DOMAIN AQI_THRESHOLDS
    THEN AQI_THRESHOLDS[pollutant] ELSE AQI_THRESHOLDS["pm25"]

\* the for loop of getAlertLevel from index i on, and the return after it
RECURSIVE Scan(_, _, _)
Scan(thresholds, value, i) ==
    IF i > Len(thresholds) THEN thresholds[Len(thresholds)]
    ELSE IF LessEq(value, thresholds[i].max) THEN thresholds[i]
    ELSE Scan(thresholds, value, i + 1)

getAlertLevel(pollutant, value) == Scan(Thresholds(pollutant), value, 1)

\* the pollutant prop: a name, or undefined (the default 'pm25' applies)
ChartPollutants == {None} \cup {Some(k) : k \in Pollutants \cup {"other"}}
\* the data prop: no point, or one point with a value or with null
ChartData == {<<>>} \cup {<<[value |-> v]>> : v \in {None} \cup {Some(x) : x \in Readings}}

\* a render of AirQualityChart with the props pollutant and data
AirQualityChart(pollutantProp, data) ==
    LET pollutant == IF IsSome(pollutantProp) THEN Get(pollutantProp) ELSE "pm25"
        latestValue == IF Len(data) > 0 THEN data[Len(data)].value ELSE Some(0)
        currentAlert == getAlertLevel(pollutant, latestValue)
    IN /\ chart' = Some([pollutant |-> pollutant, data |-> data,
                         latestValue |-> latestValue,
                         currentAlert |-> currentAlert,
                         showWarning |-> currentAlert.level # "Good",
                         thresholds |-> Thresholds(pollutant)])
       /\ UNCHANGED <<dashVars, csVars, histVars, proxyVars, mounted, filtered, userSeq>>

\* ------------------------------------------------------------- long result lists
\* longest result list of an upstream response to one query
MaxListLen == 7

LongResults ==
    {[i \in 1..Len(cs) |-> MkResult(i, cs[i])] :
        cs \in UNION {[1..n -> UpstreamCountries] : n \in 0..MaxListLen}}

\* handleSearch after the await, for a 200 reply with status OK and these results
\* (one reply in a run)
ApplySearch(results) ==
    /\ filtered = None
    /\ filtered' =
          Some([results |-> results,
                outcome |-> SearchOutcome(
                    [kind |-> "http",
                     reply |-> [status |-> 200,
                                body |-> [status |-> "OK", results |-> results]]])])
    /\ UNCHANGED <<dashVars, csVars, histVars, proxyVars, mounted, chart, userSeq>>

\* ------------------------------------------------------------- dashboard grid
\* the sensor names an available_sensors object can report
SensorNames == {"pm25", "o3"}

\* a body whose available_sensors are reported apart from its measurements
MkSensorBody(q, latest, predictions, sensors) ==
    [MkBody(q, latest, predictions) EXCEPT !.air_quality.available_sensors = sensors]

\* bodies with pm25 measured or not, with a value or null, real-time or with a
\* predicted pm25 or none, and any set of available sensors
SensorBodies(q) ==
    {MkSensorBody(q, MkLatest("pm25", e, None), pr, s) :
        e \in {None} \cup {Some([value |-> v, unit |-> "ug", display_name |-> "name"]) :
                              v \in {None, Some(0), Some(MaxVal)}},
        pr \in {None} \cup {Some([horizon_hours |-> 1,
                                  values |-> Some(MkValues("pm25", p, None))]) :
                               p \in {None, Some(MaxVal)}},
        s \in SUBSET SensorNames}

\* a published concentration on the scale of the thresholds
Hundredths(value) == IF IsSome(value) THEN Some(100 * Get(value)) ELSE None

\* the data prop DashboardGrid gives the chart of a sensor: one point when latest
\* has an entry under the sensor's name, no point otherwise
GridData(aq, name) ==
    IF name \in DOMAIN aq.latest
    THEN <<[value |-> Hundredths(aq.latest[name].value)]>>
    ELSE <<>>

\* DashboardGrid renders the chart of one available sensor
DashboardGrid(name) ==
    /\ mounted
    /\ ~loading
    /\ IsSome(airQualityData)
    /\ name \in Get(airQualityData).meta.available_sensors
    /\ AirQualityChart(Some(name), GridData(Get(airQualityData), name))

\* ------------------------------------------------------------- specifications
vars == <<dashVars, csVars, histVars, proxyVars, chartVars, mounted>>

\* the state after the first render and its effect: the mount request is in
\* flight, the interval is running, the loading screen is up
AppInit ==
    /\ airQualityData = None
    /\ weatherData = None
    /\ locationInfo = None
    /\ isPrediction = FALSE
    /\ loading = TRUE
    /\ currentLocation = DefaultLocation
    /\ predictionHours = ""
    /\ weatherDays = 7
    /\ intervals = {[id |-> 1, period |-> PollMs,
                     lat |-> DefaultLocation.lat, lng |-> DefaultLocation.lng,
                     predictionHours |-> "", weatherDays |-> 7]}
    /\ fetches = {[seq |-> 1,
                   query |-> QueryParams(DefaultLocation.lat, DefaultLocation.lng, "", 7)]}
    /\ searchQuery = <<>>
    /\ suggestions = <<>>
    /\ csLoading = FALSE
    /\ error = None
    /\ showSuggestions = FALSE
    /\ debounceTimer = None
    /\ timers = {}
    /\ geoReqs = {}
    /\ csInstance = 1
    /\ lastEvent = Event("mount", None)
    /\ fetchSeq = 1
    /\ dispSeq = 0
    /\ effectRuns = 1
    /\ geoSeq = 0
    /\ shownSeq = 0
    /\ burstCalls = <<>>
    /\ burstKeys = 0
    /\ lastKey = <<>>
    /\ sinceKey = DebounceMs
    /\ keyCount = 0
    /\ chart = None
    /\ filtered = None
    /\ userSeq = 0
    /\ mounted = TRUE

Init == AppInit /\ ProxyInit

\* the search box and the selection of a location
SearchNext ==
    \/ \E value \in Queries : handleInputChange(value)
    \/ Tick
    \/ \E t \in timers : handleSearch(t)
    \/ \E r \in geoReqs : \E o \in SearchOutcomes(r) : GeocodeRespond(r, o)
    \/ handleFocus
    \/ handleClickOutside
    \/ \E i \in 1..MaxSuggestions : handleSelectLocation(i)
    \/ \E r \in fetches :
          \E out \in {[kind |-> "throw"]} \cup OkResponses(RealTimeBodies(r.query)) :
              FetchRespond(r, out)

SpecSearch == Init /\ [][SearchNext]_vars

\* the Dashboard's options, polling and responses
SelectableResults == {MkResult(i, Some("US")) : i \in 1..MaxResults}

DashNext ==
    \/ \E result \in SelectableResults : LocationSelected(result)
    \/ \E value \in PredictionOptions : handlePredictionChange(value)
    \/ \E value \in WeatherDaysOptions : handleWeatherDaysChange(value)
    \/ \E iv \in intervals : PollTick(iv)
    \/ \E r \in fetches :
          \E out \in FetchFailures \cup OkResponses(NarrowBodies(r.query)) :
              FetchRespond(r, out)

SpecDash == Init /\ [][DashNext]_vars

\* the same, where a request in flight settles in the end
DashFairness ==
    WF_vars(\E r \in fetches :
               \E out \in FetchFailures \cup OkResponses(NarrowBodies(r.query)) :
                   FetchRespond(r, out))

SpecDashFair == Init /\ [][DashNext]_vars /\ DashFairness

\* the search box together with the options and the polling of the Dashboard
\* (one query text, one result list, one option of each select)
FrameOutcomes(r) ==
    {SearchOutcome(out) :
        out \in {[kind |-> "throw"],
                 [kind |-> "http",
                  reply |-> [status |-> 200,
                             body |-> [status |-> "OK",
                                       results |-> <<MkResult(1, Some("US"))>>]]]}}

FrameNext ==
    \/ handleInputChange(Text(0, MinQueryLen))
    \/ Tick
    \/ \E t \in timers : handleSearch(t)
    \/ \E r \in geoReqs : \E o \in FrameOutcomes(r) : GeocodeRespond(r, o)
    \/ handleSelectLocation(1)
    \/ handlePredictionChange("1")
    \/ handleWeatherDaysChange("3")
    \/ \E iv \in intervals : PollTick(iv)
    \/ \E r \in fetches :
          \E out \in {[kind |-> "throw"]} \cup OkResponses(RealTimeBodies(r.query)) :
              FetchRespond(r, out)

SpecFrame == Init /\ [][FrameNext]_vars

\* the same, with the unmount of the page
TeardownNext == FrameNext \/ Teardown

SpecTeardown == Init /\ [][TeardownNext]_vars

\* one fetch of the combined endpoint, over the wide family of bodies
MergeNext ==
    \E r \in fetches :
        \E out \in FetchFailures \cup OkResponses(WideBodies(r.query)) :
            FetchRespond(r, out)

SpecMerge == Init /\ [][MergeNext]_vars

\* one fetch of the combined endpoint whose available sensors vary, and the charts
\* of the grid
GridNext ==
    \/ \E r \in fetches :
          \E out \in FetchFailures \cup OkResponses(SensorBodies(r.query)) :
              FetchRespond(r, out)
    \/ \E name \in SensorNames : DashboardGrid(name)

SpecGrid == Init /\ [][GridNext]_vars

\* ------------------------------------------------------------- CitySearch claims
\* C1: when handleSearch runs with a query shorter than 2 characters, it issues no
\* request to /api/geocode and the suggestion list is empty afterwards.
C1_ShortQueryNoCall ==
    [][(lastEvent'.type = "handleSearch" /\ Len(lastEvent'.arg) < 2)
        => (geoReqs' = geoReqs /\ geoSeq' = geoSeq /\ suggestions' = <<>>)]_vars

\* a short query ran through handleSearch after an earlier search had rendered
C1_Witness ==
    /\ lastEvent.type = "handleSearch"
    /\ Len(lastEvent.arg) = 1
    /\ shownSeq > 0
    /\ showSuggestions
    /\ suggestions = <<>>

\* C2: within a burst of keystrokes, each less than 500 ms after the one before, at
\* most one debounce timer is pending, it is the one the last keystroke started, and
\* at most one geocoding request is issued, with the text of the last keystroke.
C2_DebounceOneCall ==
    /\ Cardinality(timers) <= 1
    /\ \A t \in timers : debounceTimer = Some(t.id) /\ t.value = lastKey
    /\ Len(burstCalls) <= 1
    /\ \A i \in DOMAIN burstCalls : burstCalls[i] = lastKey

\* a burst of two keystrokes ended in one request
C2_Witness ==
    /\ burstKeys >= 2
    /\ Len(burstCalls) = 1
    /\ timers = {}

\* C3: the suggestion list never goes back to the response of an earlier request
\* once the response of a later request has been rendered.
C3_StaleResponseDiscarded ==
    [][shownSeq' = 0 \/ shownSeq' >= shownSeq]_vars

\* C4: every geocoding result handed to a caller, in the suggestion list of
\* CitySearch or in the array geocodeAddressMultiple returns, has a country
\* component in {US, CA, MX}.
C4_OnlyNorthAmerica ==
    /\ \A i \in DOMAIN suggestions :
          /\ IsSome(suggestions[i].country)
          /\ Get(suggestions[i].country) \in {"US", "CA", "MX"}
    /\ (IsSome(libResult) /\ Get(libResult).ok) =>
          \A i \in DOMAIN Get(libResult).results :
             /\ IsSome(Get(libResult).results[i].addressComponents)
             /\ Get(Get(libResult).results[i].addressComponents) \in {"US", "CA", "MX"}

\* the part of C4 about the suggestion list of CitySearch alone
SuggestionsNorthAmerican ==
    \A i \in DOMAIN suggestions :
        /\ IsSome(suggestions[i].country)
        /\ Get(suggestions[i].country) \in {"US", "CA", "MX"}

\* C14: a step that selects a suggestion leaves the query text equal to the result's
\* formatted address, the suggestion list empty, the dropdown hidden and the error
\* cleared, and makes the result's latitude and longitude the current coordinate.
C14_SelectionClearsSearch ==
    [][(lastEvent'.type = "handleSelectLocation" /\ fetchSeq' # fetchSeq) =>
        /\ searchQuery' = lastEvent'.arg.address
        /\ suggestions' = <<>>
        /\ ~showSuggestions'
        /\ error' = None
        /\ currentLocation' = [lat |-> lastEvent'.arg.lat, lng |-> lastEvent'.arg.lng]]_vars

\* the part of C14 that does not concern the query text
SelectionEmitsCoordinate ==
    [][(lastEvent'.type = "handleSelectLocation" /\ fetchSeq' # fetchSeq) =>
        /\ suggestions' = <<>>
        /\ ~showSuggestions'
        /\ error' = None
        /\ currentLocation' = [lat |-> lastEvent'.arg.lat, lng |-> lastEvent'.arg.lng]]_vars

\* C15: the current coordinate changes only in a step that selects a suggestion.
C15_OnlySelectionMovesCoordinate ==
    [][currentLocation' # currentLocation =>
          (lastEvent'.type = "handleSelectLocation" /\ fetchSeq' # fetchSeq)]_vars

\* a search failed after a location had been selected, and the location stands
C15_Witness ==
    /\ lastEvent.type = "geocodeRespond"
    /\ IsSome(error)
    /\ currentLocation # DefaultLocation

\* C20: after a geocoding query completes without an error CitySearch holds the
\* filtered results, which may be none, and no error message; after it completes
\* with an error CitySearch holds the message and no suggestion.
C20_QueryOutcomes ==
    (lastEvent.type = "geocodeRespond" /\ lastEvent.arg.alive) =>
        IF lastEvent.arg.failed
        THEN IsSome(error) /\ suggestions = <<>>
        ELSE error = None

\* the same for runs in which a single geocoding request was issued
SingleQueryOutcomes ==
    (lastEvent.type = "geocodeRespond" /\ lastEvent.arg.alive /\ geoSeq = 1) =>
        IF lastEvent.arg.failed
        THEN IsSome(error) /\ suggestions = <<>>
        ELSE error = None

\* the length of a text without its leading and trailing spaces
TrimmedLen(q) ==
    LET inner == {i \in 1..Len(q) : q[i] # " "}
    IN IF inner = {} THEN 0
       ELSE (CHOOSE i \in inner : \A j \in inner : j <= i)
            - (CHOOSE i \in inner : \A j \in inner : j >= i) + 1

\* C21: a keystroke whose trimmed text is shorter than 2 characters starts no
\* debounce timer, leaves the suggestion list empty and issues no request; a request
\* is issued only for a text whose trimmed length is at least 2.
C21_ShortKeystrokeSkipsDebounce ==
    [][/\ (/\ lastEvent'.type = "handleInputChange"
           /\ keyCount' # keyCount
           /\ TrimmedLen(lastEvent'.arg) < 2) =>
             (timers' = {} /\ suggestions' = <<>> /\ geoSeq' = geoSeq)
       /\ geoSeq' # geoSeq => TrimmedLen(lastEvent'.arg) >= 2]_vars

\* the second part of C21 alone: requests are issued only for trimmed texts of at
\* least 2 characters
RequestsOnlyForTrimmedTexts ==
    [][geoSeq' # geoSeq => TrimmedLen(lastEvent'.arg) >= 2]_vars

\* C22: the suggestion list is the first 5, in upstream order, of the results whose
\* country is in {US, CA, MX}: it has at most 5 entries and its k-th entry is the
\* k-th allowed result.
C22_FilterThenTruncate ==
    IsSome(filtered) =>
        LET rs == Get(filtered).results
            sugg == Get(filtered).outcome.suggestions
            allowed == {i \in 1..Len(rs) :
                          /\ IsSome(rs[i].country)
                          /\ Get(rs[i].country) \in {"US", "CA", "MX"}}
            Nth(k) == CHOOSE i \in allowed : Cardinality({j \in allowed : j <= i}) = k
        IN /\ Len(sugg) <= 5
           /\ Len(sugg) = IF Cardinality(allowed) < 5 THEN Cardinality(allowed) ELSE 5
           /\ \A k \in 1..Len(sugg) : sugg[k] = rs[Nth(k)]

\* of 7 results the second is foreign and the other six are allowed: the list holds
\* five, the last of them the sixth result
C22_Witness ==
    /\ IsSome(filtered)
    /\ Len(Get(filtered).results) = 7
    /\ Get(filtered).results[2].country = Some("FR")
    /\ \A i \in {1, 3, 4, 5, 6, 7} : Get(filtered).results[i].country = Some("US")
    /\ Len(Get(filtered).outcome.suggestions) = 5
    /\ Get(filtered).outcome.suggestions[5].place_id = 6

\* the success branch of handleSearch alone, over long lists
FilterNext == \E results \in LongResults : ApplySearch(results)

SpecFilter == Init /\ [][FilterNext]_vars

\* C29: after a suggestion is selected, and until the next keystroke, the suggestion
\* list is empty, the dropdown is closed and no error is set, whatever timer was
\* pending and whatever geocoding request was in flight at the selection.
C29_SelectionStaysClear ==
    (csInstance > 1 /\ burstKeys = 0) =>
        /\ suggestions = <<>>
        /\ ~showSuggestions
        /\ error = None
        /\ timers = {}

\* the search box is back after a selection, no key was pressed since, and the
\* response of a request that was in flight at the selection has arrived
C29_Witness ==
    /\ CitySearchMounted
    /\ csInstance > 1
    /\ burstKeys = 0
    /\ lastEvent.type = "geocodeRespond"
    /\ ~lastEvent.arg.alive
    /\ ~lastEvent.arg.failed
    /\ suggestions = <<>>
    /\ error = None

\* ------------------------------------------------------------- Dashboard claims
\* C5: in prediction mode, a measured pollutant with a predicted value is published
\* with the predicted value and its other fields as measured, a measured pollutant
\* without a predicted value keeps its measured value, a pollutant that is not
\* measured gets no entry, and isPrediction is true.
C5_PredictionMerge ==
    (/\ lastEvent.type = "fetchData.ok"
     /\ IsSome(lastEvent.arg.body.predictions)
     /\ IsSome(Get(lastEvent.arg.body.predictions).values)) =>
        LET measured == lastEvent.arg.body.air_quality.latest_measurements
            predicted == Get(Get(lastEvent.arg.body.predictions).values)
            latest == Get(airQualityData).latest
        IN /\ isPrediction
           /\ \A k \in Pollutants :
                 IF k \in DOMAIN measured
                 THEN /\ k \in DOMAIN latest
                      /\ DOMAIN latest[k] = DOMAIN measured[k]
                      /\ latest[k].unit = measured[k].unit
                      /\ latest[k].display_name = measured[k].display_name
                      /\ latest[k].value = IF IsSome(predicted[k]) THEN predicted[k]
                                           ELSE measured[k].value
                 ELSE k \notin DOMAIN latest

\* a predicted pm25 of 0 replaced a measured pm25 of another value
C5_Witness ==
    /\ lastEvent.type = "fetchData.ok"
    /\ IsSome(lastEvent.arg.body.predictions)
    /\ IsSome(Get(lastEvent.arg.body.predictions).values)
    /\ Get(Get(lastEvent.arg.body.predictions).values)["pm25"] = Some(0)
    /\ "pm25" \in DOMAIN lastEvent.arg.body.air_quality.latest_measurements
    /\ lastEvent.arg.body.air_quality.latest_measurements["pm25"].value = Some(MaxVal)
    /\ Get(airQualityData).latest["pm25"].value = Some(0)
    /\ isPrediction

\* C6: a response without a predictions key is published with latest_measurements
\* as they came, and isPrediction is false afterwards.
C6_RealTimeVerbatim ==
    (lastEvent.type = "fetchData.ok" /\ ~IsSome(lastEvent.arg.body.predictions)) =>
        /\ Get(airQualityData).latest =
              lastEvent.arg.body.air_quality.latest_measurements
        /\ ~isPrediction

\* a real-time response with a null value replaced a predicted view
C6_Witness ==
    /\ lastEvent.type = "fetchData.ok"
    /\ ~IsSome(lastEvent.arg.body.predictions)
    /\ lastEvent.arg.wasPrediction
    /\ Get(airQualityData).latest["pm25"].value = None
    /\ ~isPrediction

\* C7: the view model is never overwritten by the response of a request issued
\* before the request whose response is on display.
C7_NoOlderResponseOverwrites ==
    [][dispSeq' >= dispSeq]_vars

\* C8: after a failed fetch, air-quality data, weather data and location info are
\* all null.
C8_FailureNullsAll ==
    lastEvent.type = "fetchData.catch" =>
        /\ airQualityData = None
        /\ weatherData = None
        /\ locationInfo = None

\* a fetch failed while the data of an earlier fetch was on display
C8_Witness ==
    /\ lastEvent.type = "fetchData.catch"
    /\ lastEvent.arg.hadData
    /\ airQualityData = None
    /\ locationInfo = None

\* C9: a change of the prediction horizon or of the weather window issues exactly
\* one request at once, for the current coordinate and with the new option value,
\* and leaves the polling interval as it is.
C9_OptionChangeRefetches ==
    [][(predictionHours' # predictionHours \/ weatherDays' # weatherDays) =>
        /\ \E f \in fetches' :
              /\ f \notin fetches
              /\ fetches' = fetches \cup {f}
              /\ f.query.lat = currentLocation.lat
              /\ f.query.lng = currentLocation.lng
              /\ f.query.weather_days = weatherDays'
              /\ f.query.hours = IF predictionHours' = "" THEN None
                                 ELSE Some(predictionHours')
        /\ fetchSeq' = fetchSeq + 1
        /\ currentLocation' = currentLocation
        /\ intervals' = intervals
        /\ effectRuns' = effectRuns]_vars

\* with a selected coordinate, the horizon went to 1 hour and the request is out
C9_Witness ==
    /\ lastEvent.type = "handlePredictionChange"
    /\ predictionHours = "1"
    /\ currentLocation # DefaultLocation
    /\ \E f \in fetches :
          /\ f.seq = fetchSeq
          /\ f.query.hours = Some("1")
          /\ f.query.lat = currentLocation.lat
    /\ Cardinality(intervals) = 1

\* C16: after a failed combined fetch the state holds an error message. The one
\* state value of the program that holds a message is the error of CitySearch; the
\* Dashboard has none.
C16_FailureLeavesMessage ==
    lastEvent.type = "fetchData.catch" => IsSome(error)

\* C17: once the page is unmounted no interval and no debounce timer is pending, and
\* from then on no combined request and no geocoding request is issued.
C17_TeardownCancelsTimers ==
    [][/\ ~mounted' => (intervals' = {} /\ timers' = {})
       /\ ~mounted => (fetchSeq' = fetchSeq /\ geoSeq' = geoSeq)]_vars

\* the page was unmounted while an interval and a debounce timer were pending
C17_Witness ==
    /\ ~mounted
    /\ lastEvent.type = "teardown"
    /\ lastEvent.arg.timers = 1
    /\ lastEvent.arg.intervals = 1
    /\ timers = {}
    /\ intervals = {}

\* C18: after the page is unmounted no completion changes the search state or the
\* view model, and the completion of a geocoding request of an unmounted CitySearch
\* changes no search state.
C18_CompletionAfterTeardownNoOp ==
    [][/\ ~mounted =>
             UNCHANGED <<suggestions, error, csLoading, showSuggestions, airQualityData,
                         weatherData, locationInfo, isPrediction, loading>>
       /\ \A r \in geoReqs \ geoReqs' :
             r.inst # csInstance =>
                 UNCHANGED <<suggestions, error, csLoading, showSuggestions>>]_vars

\* a combined fetch and a geocoding request were in flight at the unmount and both
\* have completed since
C18_Witness ==
    /\ ~mounted
    /\ lastEvent.type = "geocodeRespond"
    /\ geoReqs = {}
    /\ fetches = {}
    /\ fetchSeq > dispSeq

\* C19: a step that changes the coordinate issues exactly one request, for the new
\* coordinate, and replaces the interval by a new 5-minute one; at most one interval
\* is active, it polls the current coordinate, and so does every tick.
C19_CoordinateChangeRestartsPolling ==
    [][/\ currentLocation' # currentLocation =>
             /\ \E f \in fetches' :
                   /\ f \notin fetches
                   /\ fetches' = fetches \cup {f}
                   /\ f.query.lat = currentLocation'.lat
                   /\ f.query.lng = currentLocation'.lng
             /\ fetchSeq' = fetchSeq + 1
             /\ intervals' \cap intervals = {}
             /\ Cardinality(intervals') = 1
       /\ Cardinality(intervals') <= 1
       /\ \A iv \in intervals' :
             /\ iv.period = 5 * 60 * 1000
             /\ iv.lat = currentLocation'.lat
             /\ iv.lng = currentLocation'.lng
       /\ (lastEvent'.type = "pollTick" /\ fetchSeq' # fetchSeq) =>
             \E f \in fetches' :
                 /\ f.seq = fetchSeq'
                 /\ f.query.lat = currentLocation.lat
                 /\ f.query.lng = currentLocation.lng]_vars

\* after a coordinate change, a tick of the new interval asked for the new coordinate
C19_Witness ==
    /\ lastEvent.type = "pollTick"
    /\ lastEvent.arg = effectRuns
    /\ effectRuns >= 2
    /\ currentLocation # DefaultLocation
    /\ \E f \in fetches : f.seq = fetchSeq /\ f.query.lat = currentLocation.lat

\* the reading a chart was given is absent: no point, or a point with null
AbsentReading(c) == Len(c.data) = 0 \/ ~IsSome(c.data[Len(c.data)].value)

\* C23: a reading whose value is absent is not coerced to zero between the fetch and
\* the classification: a null measured value without a predicted one is not
\* published as 0, and a chart given no reading neither takes 0 for its latest value
\* nor gives the reading the tier it gives 0.
C23_AbsentNeverZero ==
    /\ lastEvent.type = "fetchData.ok" =>
          LET body == lastEvent.arg.body
              measured == body.air_quality.latest_measurements
          IN \A k \in DOMAIN measured :
                (/\ ~IsSome(measured[k].value)
                 /\ ~(HasValues(body) /\ IsSome(Get(Get(body.predictions).values)[k]))) =>
                    /\ k \in DOMAIN Get(airQualityData).latest
                    /\ Get(airQualityData).latest[k].value # Some(0)
    /\ (IsSome(chart) /\ AbsentReading(Get(chart))) =>
          /\ Get(chart).latestValue # Some(0)
          /\ Get(chart).currentAlert # getAlertLevel(Get(chart).pollutant, Some(0))

\* the part of C23 about the publication alone
AbsentNotPublishedAsZero ==
    lastEvent.type = "fetchData.ok" =>
        LET body == lastEvent.arg.body
            measured == body.air_quality.latest_measurements
        IN \A k \in DOMAIN measured :
              (/\ ~IsSome(measured[k].value)
               /\ ~(HasValues(body) /\ IsSome(Get(Get(body.predictions).values)[k]))) =>
                  Get(airQualityData).latest[k].value = None

\* C24: after a successful fetch the keys of the published latest are among the
\* sensors the response reports as available.
C24_KeysAmongAvailableSensors ==
    lastEvent.type = "fetchData.ok" =>
        DOMAIN Get(airQualityData).latest
            \subseteq lastEvent.arg.body.air_quality.available_sensors

\* C25: after a successful fetch in prediction mode every entry of the published
\* latest has a value that is not null.
C25_PredictionEntriesUsable ==
    (lastEvent.type = "fetchData.ok" /\ HasValues(lastEvent.arg.body)) =>
        \A k \in DOMAIN Get(airQualityData).latest :
            IsSome(Get(airQualityData).latest[k].value)

\* C26: isPrediction is true exactly when the view on display was built from a
\* response with predictions.values: it is false while no view is on display, and
\* after a successful fetch it tells whether the response had predictions.values.
C26_FlagMatchesView ==
    /\ airQualityData = None => ~isPrediction
    /\ lastEvent.type = "fetchData.ok" => isPrediction = HasValues(lastEvent.arg.body)

\* C27: air-quality data, weather data and location info are all null or all set,
\* they change only when a fetch settles, and then all three come from the body of
\* that one response (or are all null after a failure).
C27_AtomicPublication ==
    [][/\ (airQualityData' = None) = (weatherData' = None)
       /\ (airQualityData' = None) = (locationInfo' = None)
       /\ <<airQualityData', weatherData', locationInfo'>>
             # <<airQualityData, weatherData, locationInfo>> =>
                /\ fetches' # fetches
                /\ lastEvent'.type \in {"fetchData.ok", "fetchData.catch"}
       /\ (fetches' # fetches /\ lastEvent'.type = "fetchData.catch") =>
             /\ airQualityData' = None
             /\ weatherData' = None
             /\ locationInfo' = None
       /\ (fetches' # fetches /\ lastEvent'.type = "fetchData.ok") =>
             LET body == lastEvent'.arg.body
             IN /\ IsSome(airQualityData')
                /\ Get(airQualityData').meta.available_sensors =
                      body.air_quality.available_sensors
                /\ DOMAIN Get(airQualityData').latest
                      \subseteq DOMAIN body.air_quality.latest_measurements
                /\ weatherData' = Some(transformWeatherData(body.weather.data))
                /\ locationInfo' = Some(body.location)]_vars

\* the response for a selected location replaced the view of the default location
C27_Witness ==
    /\ lastEvent.type = "fetchData.ok"
    /\ lastEvent.arg.seq >= 2
    /\ dispSeq = lastEvent.arg.seq
    /\ lastEvent.arg.body.location.latitude # DefaultLocation.lat
    /\ locationInfo = Some(lastEvent.arg.body.location)
    /\ weatherData = Some(transformWeatherData(lastEvent.arg.body.weather.data))
    /\ IsSome(airQualityData)

\* C28: the request of a tick of the polling interval carries the prediction horizon
\* and the weather window that are selected when the tick fires.
C28_TickCarriesSelectedOptions ==
    [][(lastEvent'.type = "pollTick" /\ fetchSeq' # fetchSeq) =>
          \E f \in fetches' :
              /\ f.seq = fetchSeq'
              /\ f.query.hours = QueryParams(currentLocation.lat, currentLocation.lng,
                                             predictionHours, weatherDays).hours
              /\ f.query.weather_days = weatherDays]_vars

\* the request of the latest action of the user is in flight
UserRequestInFlight == \E f \in fetches : f.seq = userSeq

\* C30: when every request settles in the end, a raised loading flag falls again,
\* and the flag is never down while the request issued by the latest user action is
\* in flight.
C30_LoadingCoversUserRequest ==
    /\ loading ~> ~loading
    /\ [](UserRequestInFlight => loading)

\* the parts of C30 on their own
LoadingFalls == loading ~> ~loading
LoadingWhileUserRequest == UserRequestInFlight => loading

\* ------------------------------------------------------------- proxy claims
\* C10: GET answers 500 without a credential (and calls upstream never), 400 when
\* neither address nor latlng is given, 403 on REQUEST_DENIED, 429 on
\* OVER_QUERY_LIMIT, and passes every other upstream body through.
C10_ProxyStatusMapping ==
    /\ ~IsSome(apiKey) => (upstreamCalls = 0 /\ proxyPending = {})
    /\ IsSome(proxyLast) =>
          LET l == Get(proxyLast)
              given == \/ (IsSome(l.address) /\ Get(l.address) # <<>>)
                       \/ (IsSome(l.latlng) /\ Get(l.latlng) # <<>>)
          IN IF ~IsSome(apiKey)
             THEN l.reply.status = 500 /\ ~IsSome(l.upstream)
             ELSE IF ~given
             THEN l.reply.status = 400 /\ ~IsSome(l.upstream)
             ELSE /\ IsSome(l.upstream)
                  /\ Get(l.upstream).kind = "json" =>
                        IF Get(l.upstream).data.status = "REQUEST_DENIED"
                        THEN l.reply.status = 403
                        ELSE IF Get(l.upstream).data.status = "OVER_QUERY_LIMIT"
                        THEN l.reply.status = 429
                        ELSE /\ l.reply.status = 200
                             /\ l.reply.body = Get(l.upstream).data

\* the upstream geocoder reported the quota and GET answered 429
C10_Witness ==
    /\ IsSome(proxyLast)
    /\ IsSome(Get(proxyLast).upstream)
    /\ Get(Get(proxyLast).upstream).kind = "json"
    /\ Get(Get(proxyLast).upstream).data.status = "OVER_QUERY_LIMIT"
    /\ Get(proxyLast).reply.status = 429

\* C11: the body GET returns never holds the server's key, and GET run with any
\* other key on the same request and the same upstream outcome returns the same body.
C11_NoCredentialInBody ==
    (IsSome(proxyLast) /\ IsSome(apiKey)) =>
        LET l == Get(proxyLast)
        IN /\ Get(apiKey) \notin BodyStrings(l.reply.body)
           /\ \A k \in ApiKeys :
                 GETReply(Some(k), l.address, l.latlng, l.upstream).body = l.reply.body

\* GET passed an upstream body through while the server held the second key
C11_Witness ==
    /\ apiKey = Some("other")
    /\ IsSome(proxyLast)
    /\ IsSome(Get(proxyLast).upstream)
    /\ Get(Get(proxyLast).upstream).kind = "json"
    /\ Get(Get(proxyLast).upstream).data.status = "OK"
    /\ Len(Get(Get(proxyLast).upstream).data.results) > 0
    /\ Get(proxyLast).reply.body = Get(Get(proxyLast).upstream).data

\* ------------------------------------------------------------- chart claims
\* C12: for a pollutant with a catalog, getAlertLevel returns the first tier in
\* catalog order whose max is >= the value, the last tier when the value is over
\* every finite bound; for pm25, 10 and 12 are Good and 12.01 is Moderate.
C12_FirstTierInclusive ==
    (/\ IsSome(chart)
     /\ Get(chart).pollutant \in {"pm25", "no2"}
     /\ IsSome(Get(chart).latestValue)) =>
        LET c == Get(chart)
            v == Get(c.latestValue)
            T == AQI_THRESHOLDS[c.pollutant]
            Covers(i) == i = Len(T) \/ v <= T[i].max[1]
        IN /\ \E i \in 1..Len(T) :
                 /\ c.currentAlert = T[i]
                 /\ Covers(i)
                 /\ \A j \in 1..(i - 1) : ~Covers(j)
           /\ (\A b \in FiniteBounds : v > b) => c.currentAlert.level = "Hazardous"
           /\ (c.pollutant = "pm25" /\ v \in {1000, 1200}) => c.currentAlert.level = "Good"
           /\ (c.pollutant = "pm25" /\ v = 1201) => c.currentAlert.level = "Moderate"

\* the pm25 chart was given 12 and shows Good without a warning
C12_Witness ==
    /\ IsSome(chart)
    /\ Get(chart).pollutant = "pm25"
    /\ Get(chart).latestValue = Some(1200)
    /\ Get(chart).currentAlert.level = "Good"
    /\ ~Get(chart).showWarning

\* C13: for a pollutant key without a catalog, the tier is the one the same value
\* gets as pm25.
C13_FallbackToPm25 ==
    (IsSome(chart) /\ Get(chart).pollutant \notin {"pm25", "no2"}) =>
        /\ Get(chart).currentAlert = getAlertLevel("pm25", Get(chart).latestValue)
        /\ Get(chart).thresholds = AQI_THRESHOLDS["pm25"]

\* the chart of o3 was given 35.41, which is Unhealthy for Sensitive on the PM2.5
\* scale and Good on the NO2 scale
C13_Witness ==
    /\ IsSome(chart)
    /\ Get(chart).pollutant = "o3"
    /\ Get(chart).latestValue = Some(3541)
    /\ Get(chart).currentAlert.level = "Unhealthy for Sensitive"

\* the charts alone
ChartNext == \E p \in ChartPollutants, data \in ChartData : AirQualityChart(p, data)

SpecChart == Init /\ [][ChartNext]_vars

\* lib/geocoding.js called by some page, over the proxy
LibOutcomes == UpstreamOutcomes \cup {[kind |-> "transport"]}
GatewayNext ==
    /\ \/ \E q \in Queries, settled \in LibOutcomes : geocodeAddressMultiple(q, settled)
       \/ \E q \in Queries, settled \in LibOutcomes : geocodeAddress(q, settled)
    /\ UNCHANGED <<dashVars, csVars, histVars, chartVars, mounted>>

SpecGateway == Init /\ [][GatewayNext]_vars

\* the proxy alone
ProxyOnlyNext == ProxyNext /\ UNCHANGED <<dashVars, csVars, histVars, chartVars, mounted>>

SpecProxy == Init /\ [][ProxyOnlyNext]_vars

\* the proxy, with two keys the server may hold
LeakInit == AppInit /\ ProxyInitWith(ApiKeys)

SpecLeak == LeakInit /\ [][ProxyOnlyNext]_vars

Next == SearchNext \/ DashNext \/ ProxyOnlyNext \/ ChartNext \/ FilterNext

Spec == Init /\ [][Next]_vars
====
